---- MODULE Spec2Model ----
(***************************************************************************)
(* A model of the AIMCR review tool: the interactive review session of     *)
(* streamlit_app.py and the report generator of json_to_pdf_longtable.py.  *)
(*                                                                         *)
(* Python values are modelled as tagged records [t |-> type, v |-> value], *)
(* so that the code's dynamic typing (dict/list/str/int/float/None) and    *)
(* the exceptions it leads to are part of the model.  A Python string is a *)
(* sequence of one-character strings; a float is kept in tenths.           *)
(***************************************************************************)
EXTENDS Integers, Sequences, FiniteSets, TLC

VARIABLES
    data,        \* st.session_state.data: absent, None, or the review record
    last_save,   \* st.session_state.last_save (0 when never set)
    now,         \* time.time(), in seconds
    widgets,     \* widget values Streamlit keeps outside the record
    draft,       \* the newest file of DRAFTS_DIR
    submitted,   \* AIMCR-<project>-<date>/data.json
    ui,          \* what the last user action displayed and raised
    git,         \* the log of the last user action: file writes and git commands
    argv_file,   \* the input file handed to the report generator
    cli          \* what the report generator printed, returned and wrote

vars == <<data, last_save, now, widgets, draft, submitted, ui, git, argv_file, cli>>

(***************************************************************************)
(* Python values                                                           *)
(***************************************************************************)
JNull == [t |-> "null", v |-> 0]
JInt(n) == [t |-> "int", v |-> n]
JFloat(tenths) == [t |-> "float", v |-> tenths]
JBool(b) == [t |-> "bool", v |-> b]
JStr(s) == [t |-> "str", v |-> s]
JList(s) == [t |-> "list", v |-> s]
JDict(f) == [t |-> "dict", v |-> f]

EmptyStr == JStr(<<>>)

\* The result of a call: a value, or a raised exception.
Ok(x) == [ok |-> TRUE, val |-> x, err |-> "none"]
Raise(e) == [ok |-> FALSE, val |-> JNull, err |-> e]

\* bool(x), as `if x:` and `x or y` evaluate it.
Truthy(x) ==
    CASE x.t = "null" -> FALSE
      [] x.t = "bool" -> x.v
      [] x.t \in {"int", "float"} -> x.v # 0
      [] x.t = "nan" -> TRUE
      [] x.t \in {"str", "list"} -> Len(x.v) > 0
      [] x.t = "dict" -> DOMAIN x.v # {}

\* d.get(k, default) on a dict d.
DictGet(d, k, default) == IF k \in DOMAIN d.v THEN d.v[k] ELSE default

\* d with d[k] = x.
DictSet(d, k, x) == JDict([j \in (DOMAIN d.v) \cup {k} |-> IF j = k THEN x ELSE d.v[j]])

Whitespace == {" ", "\n", "\t"}

\* str.strip(): the string without its leading and trailing whitespace.
Strip(s) ==
    IF \A i \in 1..Len(s) : s[i] \in Whitespace
    THEN <<>>
    ELSE LET first == CHOOSE i \in 1..Len(s) :
                          s[i] \notin Whitespace /\ \A j \in 1..(i - 1) : s[j] \in Whitespace
             last == CHOOSE i \in 1..Len(s) :
                          s[i] \notin Whitespace /\ \A j \in (i + 1)..Len(s) : s[j] \in Whitespace
         IN SubSeq(s, first, last)

\* str.replace('\n', '<br/>'), the markup kept as one token.
ReplaceNewlines(s) == [i \in 1..Len(s) |-> IF s[i] = "\n" THEN "<br/>" ELSE s[i]]

Digit(d) == <<"0", "1", "2", "3", "4", "5", "6", "7", "8", "9">>[d + 1]

\* str(n) of a natural number.
RECURSIVE NatStr(_)
NatStr(n) == IF n < 10 THEN <<Digit(n)>> ELSE NatStr(n \div 10) \o <<Digit(n % 10)>>

IntStr(n) == IF n < 0 THEN <<"-">> \o NatStr(-n) ELSE NatStr(n)

\* int(x) of a float kept in tenths: truncation toward zero.
TruncTenths(x) == IF x >= 0 THEN x \div 10 ELSE -((-x) \div 10)

\* str(x), as an f-string formats a scalar.
PyStr(x) ==
    CASE x.t = "null" -> <<"N", "o", "n", "e">>
      [] x.t = "bool" -> IF x.v THEN <<"T", "r", "u", "e">> ELSE <<"F", "a", "l", "s", "e">>
      [] x.t = "int" -> IntStr(x.v)
      [] x.t = "float" -> IntStr(TruncTenths(x.v)) \o <<".">>
                             \o <<Digit((IF x.v >= 0 THEN x.v ELSE -x.v) % 10)>>
      [] x.t = "nan" -> <<"n", "a", "n">>
      [] x.t = "str" -> x.v
      [] OTHER -> <<"<repr>">>

\* n copies of the character c.
Rep(c, n) == [i \in 1..n |-> c]

RECURSIVE Concat(_)
\* The concatenation of a sequence of sequences (list.extend, repeated).
Concat(ss) == IF ss = <<>> THEN <<>> ELSE Head(ss) \o Concat(Tail(ss))

RECURSIVE SetToSeq(_)
SetToSeq(S) == IF S = {} THEN <<>> ELSE LET x == CHOOSE x \in S : TRUE IN <<x>> \o SetToSeq(S \ {x})

\* `for x in v`: the elements of a list, the keys of a dict, the characters of a
\* string; anything else is not iterable.
Iter(x) ==
    CASE x.t = "list" -> Ok(x.v)
      [] x.t = "dict" -> Ok([i \in 1..Cardinality(DOMAIN x.v) |-> JStr(<<SetToSeq(DOMAIN x.v)[i]>>)])
      [] x.t = "str" -> Ok([i \in 1..Len(x.v) |-> JStr(<<x.v[i]>>)])
      [] OTHER -> Raise("TypeError")

\* The first exception among a sequence of results, "none" when there is none.
FirstErr(rs) ==
    IF \A i \in 1..Len(rs) : rs[i].ok THEN "none"
    ELSE rs[CHOOSE i \in 1..Len(rs) : ~rs[i].ok /\ \A j \in 1..(i - 1) : rs[j].ok].err

(***************************************************************************)
(* json_to_pdf_longtable.py: the report generator                          *)
(***************************************************************************)
MAX_NOTES_IN_TABLE == 800

\* Characters outside ASCII are written as their character references.
Dash == <<"&#8212;">>
SeeBelow == <<"<i>See details below &#8595;</i>">>

\* Flowables of the document.
Paragraph(text, style) == [kind |-> "Paragraph", style |-> style, text |-> text, rows |-> <<>>]
Table(rows) == [kind |-> "Table", style |-> "", text |-> <<>>, rows |-> rows]
Spacer(h) == [kind |-> "Spacer", style |-> "", text |-> NatStr(h), rows |-> <<>>]
PageBreak == [kind |-> "PageBreak", style |-> "", text |-> <<>>, rows |-> <<>>]
HRFlowable == [kind |-> "HRFlowable", style |-> "", text |-> <<>>, rows |-> <<>>]

\* A file on disk, as open() and json.load() find it.
Unreadable == [kind |-> "unreadable", json |-> JNull]
Malformed == [kind |-> "malformed", json |-> JNull]
JsonFile(x) == [kind |-> "json", json |-> x]
NoFile == [kind |-> "nofile", json |-> JNull]

load_json(file) ==
    CASE file.kind = "json" -> Ok(file.json)
      [] file.kind = "malformed" -> Raise("JSONDecodeError")
      [] OTHER -> Raise("OSError")

\* int(score) for a score that is an int or a float, 0 for any other score: the
\* addend of one pass of the loop of calculate_total_risk.
IntOfScore(score) ==
    CASE score.t = "int" -> Ok(score.v)
      [] score.t = "bool" -> Ok(IF score.v THEN 1 ELSE 0)
      [] score.t = "float" -> Ok(TruncTenths(score.v))
      [] score.t = "nan" -> Raise("ValueError")
      [] OTHER -> Ok(0)

ScoreAddend(check) ==
    IF check.t # "dict" THEN Raise("AttributeError") ELSE IntOfScore(DictGet(check, "score", JNull))

RECURSIVE SumVals(_)
SumVals(rs) == IF rs = <<>> THEN 0 ELSE Head(rs).val + SumVals(Tail(rs))

\* The total of the addends, or the first exception among them.
SumAddends(adds) == IF FirstErr(adds) # "none" THEN Raise(FirstErr(adds)) ELSE Ok(SumVals(adds))

calculate_total_risk(checks) ==
    IF ~Iter(checks).ok THEN Iter(checks)
    ELSE SumAddends([i \in 1..Len(Iter(checks).val) |-> ScoreAddend(Iter(checks).val[i])])

RowError == [ok |-> FALSE, err |-> "AttributeError", row |-> <<>>, long |-> FALSE, name |-> <<>>, html |-> <<>>]

\* RowCells with the limit off by one: notes of exactly the limit are queued too.
RowCells_AtLimit(name, score, notes_raw, notes_html) ==
    [ok |-> TRUE, err |-> "none",
     long |-> Len(notes_raw) >= MAX_NOTES_IN_TABLE,
     name |-> name,
     html |-> notes_html,
     row |-> <<name,
               IF score # JStr(Dash) THEN <<"<b>">> \o PyStr(score) \o <<"</b>">> ELSE Dash,
               IF Len(notes_raw) >= MAX_NOTES_IN_TABLE THEN SeeBelow
               ELSE IF notes_html # <<>> THEN notes_html ELSE Dash>>]

\* The table row of a check with name, score and stripped notes, and the entry
\* queued in expanded_notes when the notes are long.
RowCells(name, score, notes_raw, notes_html) ==
    [ok |-> TRUE, err |-> "none",
     long |-> Len(notes_raw) > MAX_NOTES_IN_TABLE,
     name |-> name,
     html |-> notes_html,
     row |-> <<name,
               IF score # JStr(Dash) THEN <<"<b>">> \o PyStr(score) \o <<"</b>">> ELSE Dash,
               IF Len(notes_raw) > MAX_NOTES_IN_TABLE THEN SeeBelow
               ELSE IF notes_html # <<>> THEN notes_html ELSE Dash>>]

\* (check.get("notes") or "").strip(), with the name and the score of the check.
RowOf(name, score, notes) ==
    IF notes.t # "str" \/ name.t # "str" THEN RowError
    ELSE RowCells(name.v, score, Strip(notes.v), ReplaceNewlines(Strip(notes.v)))

\* One pass of the loop of create_check_elements.
CheckRow(check) ==
    IF check.t # "dict" THEN RowError
    ELSE RowOf(DictGet(check, "name", JStr(Dash)), DictGet(check, "score", JStr(Dash)),
               IF Truthy(DictGet(check, "notes", JNull)) THEN DictGet(check, "notes", JNull) ELSE EmptyStr)

\* The indices of the rows whose notes were queued, in order.
RECURSIVE LongRows(_, _)
LongRows(rows, i) ==
    IF i > Len(rows) THEN <<>>
    ELSE (IF rows[i].long THEN <<i>> ELSE <<>>) \o LongRows(rows, i + 1)

\* The expanded notes sections below the table.
ExpandedBlocks(rows, expanded) ==
    IF expanded = <<>> THEN <<>>
    ELSE <<Spacer(10)>>
         \o Concat([k \in 1..Len(expanded) |->
                      <<Paragraph(<<"&#9658; ">> \o rows[expanded[k]].name \o <<":">>, "NotesLabel"),
                        Paragraph(rows[expanded[k]].html, "NotesExpanded")>>])

ElementsOf(rows) ==
    IF FirstErr(rows) # "none" THEN Raise(FirstErr(rows))
    ELSE Ok(<<Table(<< << <<"Check">>, <<"Risk Score">>, <<"Notes">> >> >> \o [i \in 1..Len(rows) |-> rows[i].row])>>
            \o ExpandedBlocks(rows, LongRows(rows, 1)))

create_check_elements(checks) ==
    IF ~Iter(checks).ok THEN Iter(checks)
    ELSE ElementsOf([i \in 1..Len(Iter(checks).val) |-> CheckRow(Iter(checks).val[i])])

Lit(str) == <<str>>

\* The flowables of an item with checks: header, table, notes and total.
ItemWithChecks(header, check_elements, total) ==
    IF ~check_elements.ok THEN check_elements
    ELSE IF ~total.ok THEN total
    ELSE Ok(<<header>> \o check_elements.val
            \o <<Paragraph(Lit("Total Risk Score: ") \o IntStr(total.val), "TotalRisk"), Spacer(25)>>)

ItemOf(header, checks) ==
    IF ~Truthy(checks)
    THEN Ok(<<header, Paragraph(Lit("No checks recorded."), "TableText"), Spacer(25)>>)
    ELSE ItemWithChecks(header, create_check_elements(checks), calculate_total_risk(checks))

\* item.get("name", "").strip() or "(Unnamed component)", in the item's header.
ItemNamed(idx, name, checks) ==
    IF name.t # "str" THEN Raise("AttributeError")
    ELSE ItemOf(Paragraph(NatStr(idx) \o <<".", " ">>
                          \o (IF Strip(name.v) # <<>> THEN Strip(name.v) ELSE Lit("(Unnamed component)")),
                          "ItemHeader"),
                checks)

\* The flowables add_component_section appends for one item of a category.
ItemElements(item, idx) ==
    IF item.t # "dict" THEN Raise("AttributeError")
    ELSE ItemNamed(idx, DictGet(item, "name", EmptyStr), DictGet(item, "checks", JList(<<>>)))

SectionOf(head, parts) ==
    IF FirstErr(parts) # "none" THEN Raise(FirstErr(parts))
    ELSE Ok(<<head>> \o Concat([i \in 1..Len(parts) |-> parts[i].val]))

add_component_section(title, items) ==
    IF ~Truthy(items)
    THEN Ok(<<Paragraph(Lit(title), "SectionHeader"),
              Paragraph(Lit("No items in this category."), "TableText"), Spacer(20)>>)
    ELSE IF ~Iter(items).ok THEN Iter(items)
    ELSE SectionOf(Paragraph(Lit(title), "SectionHeader"),
                   [i \in 1..Len(Iter(items).val) |-> ItemElements(Iter(items).val[i], i)])

\* The keys and labels of create_metadata_table, in order.
MetadataFields ==
    << <<"proposal_title", "Proposal Title">>,
       <<"principal_investigator", "Principal Investigator">>,
       <<"proposal_date", "Proposal Date">>,
       <<"reviewer_name", "Reviewer Name">>,
       <<"reviewer_id", "Reviewer ID">>,
       <<"aimcr_date", "AIMCR Date">>,
       <<"project_id", "Project ID">> >>

create_metadata_table(metadata) ==
    IF metadata.t # "dict" THEN Raise("AttributeError")
    ELSE Ok(<<Table([i \in 1..Len(MetadataFields) |->
                       << <<"<b>", MetadataFields[i][2], ":", "</b>">>,
                          PyStr(DictGet(metadata, MetadataFields[i][1], JStr(<<"N", "/", "A">>))) >>]),
              Spacer(30)>>)

\* x.strip() or placeholder, as a TableText paragraph.
FreeText(x, placeholder) ==
    IF x.t # "str" THEN Raise("AttributeError")
    ELSE Ok(<<Paragraph(IF Strip(x.v) # <<>> THEN Strip(x.v) ELSE Lit(placeholder), "TableText")>>)

\* The titles and keys of the four sections, in order.
Sections ==
    << <<"Third-Party Software", "third_party_software">>,
       <<"Source Code", "source_code">>,
       <<"Datasets / User Files", "datasets_user_files">>,
       <<"AI Models", "models">> >>

\* The parts of the story, in the order json_to_pdf appends them.
StoryParts(doc) ==
    << Ok(<<Paragraph(Lit("KSL AI Model Control Review"), "DocTitle"), HRFlowable,
            Paragraph(Lit("Review Information"), "SectionHeader")>>),
       create_metadata_table(DictGet(doc, "metadata", JDict(<<>>))) >>
    \o Concat([i \in 1..Len(Sections) |->
                 <<add_component_section(Sections[i][1], DictGet(doc, Sections[i][2], JList(<<>>)))>>
                 \o (IF i < Len(Sections) THEN <<Ok(<<PageBreak>>)>> ELSE <<>>)])
    \o << Ok(<<Paragraph(Lit("General Observations"), "SectionHeader")>>),
          FreeText(DictGet(doc, "observations", EmptyStr), "None recorded."),
          Ok(<<Spacer(20), Paragraph(Lit("Final Recommendation"), "SectionHeader")>>),
          FreeText(DictGet(doc, "recommendation", EmptyStr), "Not provided."),
          Ok(<<Spacer(40), HRFlowable, Paragraph(Lit("Report generated on <now>"), "Footer")>>) >>

StoryOf(parts) ==
    IF FirstErr(parts) # "none" THEN Raise(FirstErr(parts))
    ELSE Ok(Concat([i \in 1..Len(parts) |-> parts[i].val]))

StoryFrom(loaded) ==
    IF ~loaded.ok THEN loaded
    ELSE IF loaded.val.t # "dict" THEN Raise("AttributeError")
    ELSE StoryOf(StoryParts(loaded.val))

\* json_to_pdf: the story handed to doc.build, or the exception raised before
\* doc.build writes anything.
json_to_pdf(file) == StoryFrom(load_json(file))

NoArg == [kind |-> "noarg", json |-> JNull]
CliIdle == [state |-> "idle", stdout |-> "", exit |-> 0, written |-> FALSE, document |-> <<>>]

Report(result) ==
    IF result.ok
    THEN [state |-> "done", stdout |-> "PDF created", exit |-> 0, written |-> TRUE, document |-> result.val]
    ELSE [state |-> "done", stdout |-> "Error: " \o result.err, exit |-> 1, written |-> FALSE, document |-> <<>>]

\* main(): what the command prints, its exit status and the document it writes.
main(file) ==
    IF file.kind = "noarg"
    THEN [state |-> "done", stdout |-> "Usage", exit |-> 1, written |-> FALSE, document |-> <<>>]
    ELSE Report(json_to_pdf(file))

(***************************************************************************)
(* streamlit_app.py: the interactive review session                        *)
(***************************************************************************)
\* The keys of `checks`, in the order `for key in checks` visits them.
CategoryKeys == <<"third_party_software", "source_code", "datasets_user_files", "models">>

checks ==
    [third_party_software |->
        <<"Open-source license compliance",
          "Known vulnerabilities (CVE)",
          "Supply chain risks (typosquatting, protestware)",
          "Binary/source origin verification",
          "Malicious code insertion risk",
          "Dependency pinning & reproducibility">>,
     source_code |->
        <<"Static code analysis (bandit, semgrep)",
          "Secrets scanning",
          "Malicious code patterns",
          "Code provenance & signing",
          "Backdoors/trojans",
          "Obfuscated code">>,
     datasets_user_files |->
        <<"Data poisoning risk",
          "PII / sensitive data leakage",
          "Copyright / licensing issues",
          "Adversarial examples",
          "Dataset provenance",
          "Jailbreak prompts in dataset">>,
     models |->
        <<"Model weights integrity (hash verification)",
          "Known unsafe/refusal-bypassed models",
          "Backdoor/trojan in weights",
          "Model card completeness",
          "Unsafe fine-tuning detected",
          "Export-controlled model">>]

\* The options of the score selectbox.
ScoreOptions == <<1, 2, 3, 4, 5>>

Range(s) == {s[i] : i \in 1..Len(s)}

\* datetime.now().strftime("%d-%m-%Y"); a session is modelled within one day.
Today == JStr(<<"04-11-2026">>)
PROJ001 == JStr(<<"P", "R", "O", "J", "0", "0", "1">>)

Absent == [t |-> "absent", v |-> 0]

\* {"score": score, "notes": notes}
CheckResult(score, notes) == JDict([score |-> score, notes |-> notes])

\* NewArtifact without the last check of the checklist.
NewArtifact_Short(key, n) ==
    JDict([name |-> JStr(<<"A", "r", "t", "i", "f", "a", "c", "t", " ">> \o IntStr(n + 1)),
           checks |-> JDict([c \in Range(SubSeq(checks[key], 1, Len(checks[key]) - 1)) |->
                               CheckResult(JInt(1), EmptyStr)])])

\* The artifact "+ Add Artifact" appends to a category that holds n artifacts.
NewArtifact(key, n) ==
    JDict([name |-> JStr(<<"A", "r", "t", "i", "f", "a", "c", "t", " ">> \o IntStr(n + 1)),
           checks |-> JDict([c \in Range(checks[key]) |-> CheckResult(JInt(1), EmptyStr)])])

\* The record INIT DATA creates.
InitData ==
    JDict([project_id |-> PROJ001,
           proposal_title |-> EmptyStr,
           principal_investigator |-> EmptyStr,
           proposal_date |-> EmptyStr,
           reviewer_name |-> EmptyStr,
           reviewer_id |-> EmptyStr,
           crr_date |-> Today,
           third_party_software |-> JList(<<>>),
           source_code |-> JList(<<>>),
           datasets_user_files |-> JList(<<>>),
           models |-> JList(<<>>)])

\* A user action: the widget that changed, with its new value.
Event(type, key, idx, check, val) == [type |-> type, key |-> key, idx |-> idx, check |-> check, val |-> val]
NoEvent == Event("none", "", 0, "", JNull)

\* x[k] of Python: the item, KeyError, or TypeError when x is no dict.
GetItem(x, k) ==
    IF x.t # "dict" THEN Raise("TypeError")
    ELSE IF k \notin DOMAIN x.v THEN Raise("KeyError")
    ELSE Ok(x.v[k])

\* How the git commands of one script run answer: each is "ok", "nonzero" (a
\* failing exit status) or "raise" (a timeout, or git missing); pull is "norepo"
\* when there is no .git directory; dirty is whether `git status` reports changes.
GitEnv(pull, add, status, dirty, commit, push) ==
    [pull |-> pull, add |-> add, status |-> status, dirty |-> dirty, commit |-> commit, push |-> push]

\* One entry of the log of what a script run did outside the session.
Did(cmd, result) == [cmd |-> cmd, result |-> result]

\* The commands safe_git_add_commit_push runs, in order, and the exception that
\* leaves its try block ("none" when it runs to the end).
GitSteps(g) ==
    IF g.add # "ok"
    THEN [trace |-> <<Did("git add", g.add)>>, exc |-> "CalledProcessError"]
    ELSE IF g.status = "raise"
    THEN [trace |-> <<Did("git add", "ok"), Did("git status", "raise")>>, exc |-> "TimeoutExpired"]
    ELSE IF g.status = "nonzero" \/ ~g.dirty
    THEN [trace |-> <<Did("git add", "ok"), Did("git status", g.status)>>, exc |-> "none"]
    ELSE IF g.commit # "ok"
    THEN [trace |-> <<Did("git add", "ok"), Did("git status", "ok"), Did("git commit", g.commit)>>,
          exc |-> "CalledProcessError"]
    ELSE [trace |-> <<Did("git add", "ok"), Did("git status", "ok"), Did("git commit", "ok"),
                      Did("git push", g.push)>>,
          exc |-> IF g.push = "raise" THEN "TimeoutExpired" ELSE "none"]

\* safe_git_add_commit_push without its try block.
safe_git_add_commit_push_Raising(g) == GitSteps(g)

\* safe_git_add_commit_push: the bare `except: pass` swallows whatever was raised.
safe_git_add_commit_push(g) == [trace |-> GitSteps(g).trace, exc |-> "none"]

\* safe_git_pull: `git pull --rebase` when there is a repository; its timeout
\* ("raise") is swallowed, so nothing leaves the function.
safe_git_pull(pull) ==
    [trace |-> IF pull = "norepo" THEN <<>> ELSE <<Did("git pull", pull)>>, exc |-> "none"]

\* What save_draft did when it raised err.
SaveFailed(err, file, trace) == [ok |-> FALSE, err |-> err, name |-> <<>>, file |-> file, trace |-> trace]

\* save_draft from the call of safe_git_add_commit_push on.
SaveSynced(d, name, sync) ==
    IF sync.exc # "none"
    THEN SaveFailed(sync.exc, JsonFile(d), <<Did("open", "ok"), Did("json.dump", "ok")>> \o sync.trace)
    ELSE [ok |-> TRUE, err |-> "none", name |-> name, file |-> JsonFile(d),
          trace |-> <<Did("open", "ok"), Did("json.dump", "ok")>> \o sync.trace]

\* save_draft for the project id pid: the file is named
\* f"{pid.strip() or 'UNKNOWN'}_{ts}.json".
SaveAs(d, pid, time, write_ok, g) ==
    IF pid.t # "str" THEN SaveFailed("AttributeError", NoFile, <<>>)
    ELSE IF ~write_ok THEN SaveFailed("OSError", NoFile, <<Did("open", "OSError")>>)
    ELSE SaveSynced(d,
                    (IF Strip(pid.v) # <<>> THEN Strip(pid.v) ELSE Lit("UNKNOWN"))
                    \o <<"_">> \o NatStr(time) \o <<".json">>,
                    safe_git_add_commit_push(g))

\* save_draft: the file written, the log of what was done, the name returned or
\* the exception raised.  write_ok is whether open() succeeds.  The project id
\* is data.get("project_id") or "UNKNOWN".
save_draft(d, time, write_ok, g) ==
    IF d.t # "dict" THEN SaveFailed("AttributeError", NoFile, <<>>)
    ELSE SaveAs(d,
                IF Truthy(DictGet(d, "project_id", JNull)) THEN DictGet(d, "project_id", JNull)
                ELSE JStr(Lit("UNKNOWN")),
                time, write_ok, g)

\* load_draft: the parsed file, or None when anything at all goes wrong.
load_draft(file) == IF load_json(file).ok THEN load_json(file).val ELSE JNull

\* What one user action needs from outside the session: the clock, whether the
\* file system takes a write, and how the git commands answer.
Env(time, write_ok, g) == [now |-> time, write_ok |-> write_ok, git |-> g]

\* The state one script run works on: the session state and the disk, what it has
\* displayed (msgs, section, final), the log of its commands (git), the exception
\* that stopped it, and whether it asked for a rerun.
NoFinal == [shown |-> FALSE, total |-> 0, critical |-> FALSE]
Stopped(S) == S.exc # "none" \/ S.rerun
Halt(S, e) == [S EXCEPT !.exc = e]
Success(S, msg) == IF Stopped(S) THEN S ELSE [S EXCEPT !.msgs = @ \o <<msg>>]

\* st.session_state.data["project_id"] = project_id; ...["crr_date"] = today
Stamp(d, w) == DictSet(DictSet(d, "project_id", w.project_id), "crr_date", Today)

\* The session after save_draft returned or raised r.
AfterSave(S, r) ==
    [S EXCEPT !.draft = IF r.file = NoFile THEN @ ELSE r.file,
              !.git = @ \o r.trace,
              !.exc = r.err]

\* The record stamped with the sidebar's project and today's date, and saved.
StampAndSave(S, w, env) ==
    IF S.data.t = "absent" THEN Halt(S, "AttributeError")
    ELSE IF S.data.t # "dict" THEN Halt(S, "TypeError")
    ELSE AfterSave([S EXCEPT !.data = Stamp(S.data, w)],
                   save_draft(Stamp(S.data, w), env.now, env.write_ok, env.git))

\* The "FINAL SUBMIT" handler from the call of safe_git_add_commit_push on.
SubmitSynced(S, sync) ==
    IF sync.exc # "none" THEN [S EXCEPT !.git = @ \o sync.trace, !.exc = sync.exc]
    ELSE [S EXCEPT !.git = @ \o sync.trace,
                   !.msgs = @ \o <<"Submitted">>,
                   !.data = Absent,
                   !.rerun = TRUE]

SubmitHandler(S, env) ==
    IF ~env.write_ok THEN [S EXCEPT !.exc = "OSError", !.git = @ \o <<Did("open", "OSError")>>]
    ELSE IF S.data.t = "absent" THEN [S EXCEPT !.exc = "AttributeError", !.git = @ \o <<Did("open", "ok")>>]
    ELSE SubmitSynced([S EXCEPT !.submitted = JsonFile(S.data),
                                !.git = @ \o <<Did("open", "ok"), Did("json.dump", "ok")>>],
                      safe_git_add_commit_push(env.git))

\* The sidebar, with the handlers of its buttons: "Sync with GitHub", "Load
\* Draft", "Save Draft" and "FINAL SUBMIT".
Sidebar(S, ev, w, env) ==
    CASE Stopped(S) -> S
      [] ev.type = "sync" ->
           [S EXCEPT !.git = @ \o safe_git_pull(env.git.pull).trace,
                     !.msgs = @ \o <<"Synced!">>,
                     !.rerun = TRUE]
      [] ev.type = "load" ->
           [S EXCEPT !.data = load_draft(S.draft), !.msgs = @ \o <<"Loaded">>, !.rerun = TRUE]
      [] ev.type = "save" -> Success(StampAndSave(S, w, env), "Draft saved")
      [] ev.type = "submit" /\ Truthy(ev.val) -> SubmitHandler(S, env)
      [] OTHER -> S

\* st.session_state.last_save = time.time()
Saved(S, time) == IF Stopped(S) THEN S ELSE [S EXCEPT !.last_save = time]

\* AutoSave with the block entered at exactly 30 seconds already.
AutoSave_AtThreshold(S, w, env) ==
    IF Stopped(S) \/ S.data.t = "absent" \/ ~(env.now - S.last_save >= 30) THEN S
    ELSE Saved(StampAndSave([S EXCEPT !.git = @ \o <<Did("auto-save", "begin")>>], w, env), env.now)

\* The auto-save block.  Entering it is entered in the log, ahead of the commands
\* of its save_draft.
AutoSave(S, w, env) ==
    IF Stopped(S) \/ S.data.t = "absent" \/ ~(env.now - S.last_save > 30) THEN S
    ELSE Saved(StampAndSave([S EXCEPT !.git = @ \o <<Did("auto-save", "begin")>>], w, env), env.now)

\* INIT DATA
InitBlock(S) == IF Stopped(S) \/ S.data.t # "absent" THEN S ELSE [S EXCEPT !.data = InitData]

\* The value a text input returns: what the user typed into it in this run, else
\* the value it was given, as a string.
TextInput(typed, text, value) ==
    IF typed THEN text ELSE IF value.t = "str" THEN value ELSE JStr(PyStr(value))

HeaderInput(d, ev, field) ==
    TextInput(ev.type = "field" /\ ev.key = field, ev.val, DictGet(d, field, EmptyStr))

\* d.update(new)
Update(d, new) ==
    JDict([k \in (DOMAIN d.v) \cup (DOMAIN new) |-> IF k \in DOMAIN new THEN new[k] ELSE d.v[k]])

\* HEADER: every field of the form is written back into the record.
Header(S, ev, w) ==
    IF Stopped(S) THEN S
    ELSE IF S.data.t # "dict" THEN Halt(S, "AttributeError")
    ELSE [S EXCEPT !.data =
            Update(S.data, [project_id |-> HeaderInput(S.data, ev, "project_id"),
                            proposal_title |-> HeaderInput(S.data, ev, "proposal_title"),
                            principal_investigator |-> HeaderInput(S.data, ev, "principal_investigator"),
                            proposal_date |-> w.proposal_date,
                            crr_date |-> w.crr_date,
                            reviewer_name |-> HeaderInput(S.data, ev, "reviewer_name"),
                            reviewer_id |-> HeaderInput(S.data, ev, "reviewer_id")])]

\* r[k] when r is the result of an earlier subscript.
GetIn(r, k) == IF ~r.ok THEN r ELSE GetItem(r.val, k)

\* The index the score selectbox is given, current["score"] - 1, as Streamlit
\* takes it: an int within the options, else an exception.
ScoreIndex(score) ==
    CASE ~score.ok -> score
      [] score.val.t = "int" ->
           IF score.val.v - 1 \in 0..(Len(ScoreOptions) - 1) THEN Ok(score.val.v - 1)
           ELSE Raise("StreamlitAPIException")
      [] score.val.t = "bool" -> IF score.val.v THEN Ok(0) ELSE Raise("StreamlitAPIException")
      [] score.val.t \in {"float", "nan"} -> Raise("StreamlitAPIException")
      [] OTHER -> Raise("TypeError")

\* {"score": score, "notes": notes} as the two widgets of a check return them.
WidgetValues(index, notes, ev, here) ==
    IF ~index.ok THEN index
    ELSE IF ~notes.ok THEN notes
    ELSE Ok(CheckResult(IF ev.type = "score" /\ here THEN ev.val ELSE JInt(ScoreOptions[index.val + 1]),
                        TextInput(ev.type = "notes" /\ here, ev.val, notes.val)))

\* The widgets of check c of artifact idx, given current = artifact["checks"][c].
CheckWidgets(current, key, idx, c, ev) ==
    WidgetValues(ScoreIndex(GetIn(current, "score")), GetIn(current, "notes"), ev,
                 ev.key = key /\ ev.idx = idx /\ ev.check = c)

\* The loop over checks[key] from position p on: the checks of the artifact as the
\* assignments of line 226 leave them, and the exception that ended the loop.
RECURSIVE RenderChecks(_, _, _, _, _)
RECURSIVE AfterCheck(_, _, _, _, _, _)
RenderChecks(cks, key, idx, p, ev) ==
    IF p > Len(checks[key]) THEN [exc |-> "none", val |-> cks]
    ELSE AfterCheck(cks, key, idx, p, ev, CheckWidgets(GetItem(cks, checks[key][p]), key, idx, checks[key][p], ev))

AfterCheck(cks, key, idx, p, ev, r) ==
    IF ~r.ok THEN [exc |-> r.err, val |-> cks]
    ELSE RenderChecks(DictSet(cks, checks[key][p], r.val), key, idx, p + 1, ev)

\* The body of the expander of artifact idx: the artifact as the widgets leave it
\* (up to the first exception), and whether its Remove button was pressed.
ArtifactChecked(a, key, idx, ev, r) ==
    [exc |-> r.exc, val |-> DictSet(a, "checks", r.val),
     remove |-> r.exc = "none" /\ ev.type = "remove" /\ ev.key = key /\ ev.idx = idx]

ArtifactNamed(a, key, idx, ev, cks) ==
    IF ~cks.ok THEN [exc |-> cks.err, val |-> a, remove |-> FALSE]
    ELSE IF cks.val.t # "dict" THEN [exc |-> "TypeError", val |-> a, remove |-> FALSE]
    ELSE ArtifactChecked(a, key, idx, ev, RenderChecks(cks.val, key, idx, 1, ev))

ArtifactOf(a, key, idx, ev, name) ==
    IF ~name.ok THEN [exc |-> name.err, val |-> a, remove |-> FALSE]
    ELSE ArtifactNamed(DictSet(a, "name", TextInput(ev.type = "name" /\ ev.key = key /\ ev.idx = idx,
                                                    ev.val, name.val)),
                       key, idx, ev, GetItem(a, "checks"))

\* The loop over data[key] from position i on: the list as it is left, the
\* exception that ended the loop, and whether st.rerun() ended it after
\* data[key].pop(idx).
RECURSIVE RenderItems(_, _, _, _)
RECURSIVE AfterItem(_, _, _, _, _)
RenderItems(items, key, i, ev) ==
    IF i > Len(items) THEN [exc |-> "none", val |-> items, rerun |-> FALSE]
    ELSE AfterItem(items, key, i, ev, ArtifactOf(items[i], key, i, ev, GetItem(items[i], "name")))

AfterItem(items, key, i, ev, r) ==
    IF r.exc # "none" THEN [exc |-> r.exc, val |-> [items EXCEPT ![i] = r.val], rerun |-> FALSE]
    ELSE IF r.remove
    THEN [exc |-> "none", rerun |-> TRUE,
          val |-> [j \in 1..(Len(items) - 1) |-> IF j < i THEN items[j] ELSE items[j + 1]]]
    ELSE RenderItems([items EXCEPT ![i] = r.val], key, i + 1, ev)

Max(S) == CHOOSE m \in S : \A x \in S : x <= m

RECURSIVE Sum(_)
Sum(s) == IF s = <<>> THEN 0 ELSE Head(s) + Sum(Tail(s))

\* The values of a sequence of results, or the first exception among them.
AllOf(rs) == IF FirstErr(rs) # "none" THEN Raise(FirstErr(rs)) ELSE Ok([i \in 1..Len(rs) |-> rs[i].val])

\* An operand of max() and sum(): an int.
Number(r) == IF r.ok /\ r.val.t # "int" THEN Raise("TypeError") ELSE r

\* MaxOver adding the scores of the artifacts up instead.
MaxOver_Sum(scores) ==
    IF ~scores.ok THEN scores ELSE Ok(Sum([i \in 1..Len(scores.val) |-> scores.val[i].v]))

\* max(...) of the scores a generator yields.
MaxOver(scores) ==
    IF ~scores.ok THEN scores ELSE Ok(Max({scores.val[i].v : i \in 1..Len(scores.val)}))

\* [max(a["checks"][c]["score"] for a in data[key]) for c in checks[key]]
MaxScores(items, key) ==
    AllOf([p \in 1..Len(checks[key]) |->
             MaxOver(AllOf([i \in 1..Len(items) |->
                              Number(GetIn(GetIn(GetItem(items[i], "checks"), checks[key][p]), "score"))]))])

\* The section risk: total, level and color of lines 234-237.
SectionRisk(max_scores) ==
    [shown |-> TRUE,
     total |-> Sum(max_scores),
     level |-> IF 5 \in Range(max_scores) \/ Sum(max_scores) >= 21 THEN "CRITICAL"
               ELSE IF Sum(max_scores) >= 15 THEN "HIGH"
               ELSE IF Sum(max_scores) >= 10 THEN "MEDIUM" ELSE "LOW",
     color |-> IF 5 \in Range(max_scores) \/ Sum(max_scores) >= 21 THEN "red"
               ELSE IF Sum(max_scores) >= 15 THEN "orange" ELSE "green"]

RiskShown(S, key, max_scores) ==
    IF ~max_scores.ok THEN Halt(S, max_scores.err)
    ELSE [S EXCEPT !.section[key] = SectionRisk(max_scores.val)]

\* if data[key]: ... of line 232
RiskBlock(S, key, items) ==
    IF Stopped(S) \/ items = <<>> THEN S ELSE RiskShown(S, key, MaxScores(items, key))

\* The section once the loop over its artifacts has ended with r.
SectionRendered(S, key, r) ==
    RiskBlock([S EXCEPT !.data = DictSet(@, key, JList(r.val)), !.exc = r.exc, !.rerun = r.rerun], key, r.val)

\* The section of a data[key] that is no list.
SectionOfNonList(S, x, adding) ==
    IF adding THEN Halt(S, "AttributeError")
    ELSE IF x.t \in {"dict", "str"} /\ ~Truthy(x) THEN S
    ELSE Halt(S, "TypeError")

\* The section of data[key] = before: the "+ Add Artifact" button appends to it,
\* then its artifacts are rendered.
SectionOfItems(S, key, ev, before) ==
    IF ~before.ok THEN Halt(S, before.err)
    ELSE IF before.val.t # "list" THEN SectionOfNonList(S, before.val, ev.type = "add" /\ ev.key = key)
    ELSE SectionRendered(S, key,
            RenderItems(IF ev.type = "add" /\ ev.key = key
                        THEN Append(before.val.v, NewArtifact(key, Len(before.val.v)))
                        ELSE before.val.v,
                        key, 1, ev))

\* render_section(title, key): the Add button, the artifacts with their widgets
\* and Remove buttons, and the section risk.
render_section(S, key, ev) ==
    IF Stopped(S) THEN S ELSE SectionOfItems(S, key, ev, GetItem(S.data, key))

\* The maxes of one pass of the loop of FINAL SUMMARY: none when data[key] is empty.
CategoryMaxes(items, key) ==
    IF ~items.ok THEN items
    ELSE IF ~Truthy(items.val) THEN Ok(<<>>)
    ELSE IF items.val.t # "list" THEN Raise("TypeError")
    ELSE AllOf(<<MaxScores(items.val.v, key)>>)

\* FinalRisk with a total of exactly 21 not yet critical.
FinalRisk_Above(totals, has_crit) ==
    [shown |-> TRUE, total |-> Sum(totals), critical |-> Sum(totals) > 21 \/ has_crit]

FinalRisk(totals, has_crit) ==
    [shown |-> TRUE, total |-> Sum(totals), critical |-> Sum(totals) >= 21 \/ has_crit]

FinalOf(S, maxes) ==
    IF ~maxes.ok THEN Halt(S, maxes.err)
    ELSE [S EXCEPT !.final = FinalRisk([i \in 1..Len(Concat(maxes.val)) |-> Sum(Concat(maxes.val)[i])],
                                       \E i \in 1..Len(Concat(maxes.val)) : 5 \in Range(Concat(maxes.val)[i]))]

\* FINAL SUMMARY
FinalSummary(S) ==
    IF Stopped(S) THEN S
    ELSE FinalOf(S, AllOf([i \in 1..Len(CategoryKeys) |->
                             CategoryMaxes(GetItem(S.data, CategoryKeys[i]), CategoryKeys[i])]))

\* RENDER ALL SECTIONS, from the i-th call on.
RECURSIVE RenderSections(_, _, _)
RenderSections(S, i, ev) ==
    IF i > Len(CategoryKeys) THEN S
    ELSE RenderSections(render_section(S, CategoryKeys[i], ev), i + 1, ev)

\* One run of the script, top to bottom, for one user action; it starts with the
\* module-level safe_git_pull().
Run(S, ev, w, env) ==
    FinalSummary(RenderSections(
        Header(InitBlock(AutoSave(Sidebar([S EXCEPT !.git = @ \o safe_git_pull(env.git.pull).trace],
                                          ev, w, env),
                                  w, env)),
               ev, w),
        1, ev))

NoSections == [k \in Range(CategoryKeys) |-> [shown |-> FALSE, total |-> 0, level |-> "", color |-> ""]]

\* What a rerun starts from: nothing displayed.
Clear(S) == [S EXCEPT !.section = NoSections, !.final = NoFinal, !.rerun = FALSE]

Rerun(S, w, env) == IF S.rerun THEN Run(Clear(S), NoEvent, w, env) ELSE S

\* What a user action does: the script runs, and runs once more when st.rerun()
\* was called.
Handle(S, ev, w, env) == Rerun(Run(Clear(S), ev, w, env), w, env)

(***************************************************************************)
(* The state machine                                                       *)
(***************************************************************************)
\* The elapsed-time threshold of the auto-save block.
AutoSaveInterval == 30

\* Bounds of the model.
MaxArtifacts == 2      \* artifacts in the record, over all categories
MaxTime == 46          \* seconds a session lasts once the page is open

\* time.time() is far beyond the interval when a session starts.
StartTime == AutoSaveInterval + 1

\* The seconds between two user actions: half the interval, or just beyond it.
Delays == {AutoSaveInterval \div 2, AutoSaveInterval + 1}

GitOk == GitEnv("ok", "ok", "ok", TRUE, "ok", "ok")

\* What the reviewer types and picks.
TextInputs == {JStr(<<"x">>)}

InitWidgets == [project_id |-> PROJ001, proposal_date |-> Today, crr_date |-> Today]

\* The artifacts of category key in the session record (none when it has no such list).
Artifacts(d, key) ==
    IF d.t = "dict" /\ key \in DOMAIN d.v /\ d.v[key].t = "list" THEN d.v[key].v ELSE <<>>

\* The session and the disk a script run starts from.
Session ==
    [data |-> data, last_save |-> last_save, draft |-> draft, submitted |-> submitted,
     git |-> <<>>, msgs |-> <<>>, exc |-> "none", rerun |-> FALSE,
     section |-> NoSections, final |-> NoFinal]

\* What the page shows once the script has run for ev.
Display(R, ev) ==
    [ev |-> ev.type, msgs |-> R.msgs, exc |-> R.exc, section |-> R.section, final |-> R.final]

\* The session, the disk and the page as the script run R leaves them.
Becomes(R, ev) ==
    /\ data' = R.data
    /\ last_save' = R.last_save
    /\ draft' = R.draft
    /\ submitted' = R.submitted
    /\ git' = R.git
    /\ ui' = Display(R, ev)

\* The step of the session for user action ev: the clock moves on by delay, the
\* script runs on the session state and the disk, and its display is kept.
UserAction(ev, w, delay, write_ok, g) ==
    /\ now + delay <= StartTime + MaxTime
    /\ now' = now + delay
    /\ widgets' = w
    /\ Becomes(Handle(Session, ev, w, Env(now + delay, write_ok, g)), ev)
    /\ UNCHANGED <<argv_file, cli>>

\* A user action that changes no widget of the sidebar.
Act(ev, write_ok, g) == \E delay \in Delays : UserAction(ev, widgets, delay, write_ok, g)

\* "+ Add Artifact" of a category.
AddArtifact ==
    /\ Sum([i \in 1..Len(CategoryKeys) |-> Len(Artifacts(data, CategoryKeys[i]))]) < MaxArtifacts
    /\ \E i \in 1..Len(CategoryKeys) : Act(Event("add", CategoryKeys[i], 0, "", JNull), TRUE, GitOk)

\* A new name typed into "Artifact Name/ID".
EditName ==
    \E i \in 1..Len(CategoryKeys) : \E idx \in 1..Len(Artifacts(data, CategoryKeys[i])) :
         \E v \in TextInputs : Act(Event("name", CategoryKeys[i], idx, "", v), TRUE, GitOk)

\* A score picked in the selectbox of a check.
EditScore ==
    \E i \in 1..Len(CategoryKeys) : \E idx \in 1..Len(Artifacts(data, CategoryKeys[i])) :
         \E c \in Range(checks[CategoryKeys[i]]) : \E k \in 1..Len(ScoreOptions) :
           Act(Event("score", CategoryKeys[i], idx, c, JInt(ScoreOptions[k])), TRUE, GitOk)

\* Notes typed into the text area of a check.
EditNotes ==
    \E i \in 1..Len(CategoryKeys) : \E idx \in 1..Len(Artifacts(data, CategoryKeys[i])) :
         \E c \in Range(checks[CategoryKeys[i]]) : \E v \in {JStr(<<"o", "k", "\n">>)} :
           Act(Event("notes", CategoryKeys[i], idx, c, v), TRUE, GitOk)

\* "Remove artifact"
RemoveArtifact ==
    \E i \in 1..Len(CategoryKeys) : \E idx \in 1..Len(Artifacts(data, CategoryKeys[i])) :
        Act(Event("remove", CategoryKeys[i], idx, "", JNull), TRUE, GitOk)

\* A text typed into one of the inputs of the header.
EditField ==
    \E f \in {"project_id", "proposal_title", "principal_investigator", "reviewer_name", "reviewer_id"} :
         \E v \in TextInputs : Act(Event("field", f, 0, "", v), TRUE, GitOk)

\* A date picked in one of the date inputs, or a text typed into the Project ID
\* of the sidebar: values Streamlit keeps in the widget.
EditWidget ==
    \E f \in DOMAIN widgets : \E v \in (IF f = "project_id" THEN TextInputs ELSE {JStr(<<"01-01-2026">>)}) :
         \E delay \in Delays :
           UserAction(Event("widget", f, 0, "", v), [widgets EXCEPT ![f] = v], delay, TRUE, GitOk)

\* The "Save Draft" button, under the given outcomes of the write and of git.
SaveDraft(W, G) == \E write_ok \in W : \E g \in G : Act(Event("save", "", 0, "", JNull), write_ok, g)

\* The "FINAL SUBMIT" button, with the confirmation checkbox as Streamlit returns it.
FinalSubmit(W, G) ==
    \E write_ok \in W : \E g \in G : \E confirmed \in BOOLEAN :
        Act(Event("submit", "", 0, "", JBool(confirmed)), write_ok, g)

\* The "Sync with GitHub" button.
Sync(G) == \E g \in G : Act(Event("sync", "", 0, "", JNull), TRUE, g)

\* The "Load Draft" button, on the newest draft.
LoadDraft ==
    /\ draft # NoFile
    /\ Act(Event("load", "", 0, "", JNull), TRUE, GitOk)

\* The report generator run on a file of the disk.
Generate ==
    \E file \in {draft, submitted} \ {NoFile} :
        /\ argv_file' = file
        /\ cli' = main(file)
        /\ UNCHANGED <<data, last_save, now, widgets, draft, submitted, ui, git>>

\* A session with nothing in st.session_state, on a drafts directory whose
\* newest file is file.
Fresh(file) ==
    [data |-> Absent, last_save |-> 0, draft |-> file, submitted |-> NoFile,
     git |-> <<>>, msgs |-> <<>>, exc |-> "none", rerun |-> FALSE,
     section |-> NoSections, final |-> NoFinal]

Opened(R) ==
    /\ data = R.data
    /\ last_save = R.last_save
    /\ draft = R.draft
    /\ submitted = R.submitted
    /\ git = R.git
    /\ ui = Display(R, NoEvent)

\* The session once the page has been opened: the script has run once.
InitSession(file) ==
    /\ now = StartTime
    /\ widgets = InitWidgets
    /\ Opened(Handle(Fresh(file), NoEvent, InitWidgets, Env(StartTime, TRUE, GitOk)))

\* A session on an empty drafts directory.
Init ==
    /\ InitSession(NoFile)
    /\ argv_file = NoArg
    /\ cli = CliIdle

Next ==
    \/ AddArtifact
    \/ EditName
    \/ EditScore
    \/ EditNotes
    \/ RemoveArtifact
    \/ EditField
    \/ EditWidget
    \/ SaveDraft({TRUE}, {GitOk})
    \/ FinalSubmit({TRUE}, {GitOk})
    \/ Sync({GitOk})
    \/ LoadDraft
    \/ Generate

Spec == Init /\ [][Next]_vars

(***************************************************************************)
(* The report generator on its own: one run of main() on an input file     *)
(***************************************************************************)
MaxChecks == 2         \* checks of the artifact in an input file

\* A check of an input file, with the given entries besides its name.
InputCheck(name, entries) ==
    JDict([k \in {"name"} \cup DOMAIN entries |-> IF k = "name" THEN JStr(<<name>>) ELSE entries[k]])

Notes800 == JStr(Rep("a", 800))
Notes801 == JStr(Rep("a", 801))

\* The checks an input file is written with: scores of every JSON type, within
\* and outside 1..5; notes around the length limit, with and without
\* surrounding whitespace.
CheckSamples ==
    { InputCheck("c01", [score |-> JInt(3), notes |-> EmptyStr]),
      InputCheck("c02", [score |-> JInt(5), notes |-> JStr(<<"l", "1", "\n", "l", "2">>)]),
      InputCheck("c03", [notes |-> JStr(<<"n", "o", " ", "s", "c", "o", "r", "e">>)]),
      InputCheck("c04", [score |-> JFloat(25), notes |-> EmptyStr]),
      InputCheck("c05", [score |-> [t |-> "nan", v |-> 0], notes |-> EmptyStr]),
      InputCheck("c06", [score |-> JStr(<<"h", "i", "g", "h">>), notes |-> EmptyStr]),
      InputCheck("c07", [score |-> JNull, notes |-> EmptyStr]),
      InputCheck("c08", [score |-> JBool(TRUE), notes |-> EmptyStr]),
      InputCheck("c09", [score |-> JInt(7), notes |-> EmptyStr]),
      InputCheck("c10", [score |-> JInt(2)]),
      InputCheck("c11", [score |-> JInt(2), notes |-> JNull]),
      InputCheck("c12", [score |-> JInt(2), notes |-> JStr(<<" ", "\n", " ">>)]),
      InputCheck("c13", [score |-> JInt(2), notes |-> Notes800]),
      InputCheck("c14", [score |-> JInt(2), notes |-> Notes801]),
      InputCheck("c15", [score |-> JInt(2), notes |-> JStr(Notes800.v \o <<"\n">>)]),
      InputCheck("c16", [score |-> JInt(2), notes |-> JStr(<<" ">> \o Notes801.v)]) }

\* A record as the report generator reads it, with one artifact.
ReportRecord(cs) ==
    JDict([metadata |-> JDict([proposal_title |-> JStr(<<"T">>),
                               principal_investigator |-> JStr(<<"P">>),
                               proposal_date |-> Today,
                               reviewer_name |-> JStr(<<"R">>),
                               reviewer_id |-> JStr(<<"7">>),
                               aimcr_date |-> Today,
                               project_id |-> PROJ001]),
           third_party_software |-> JList(<<JDict([name |-> JStr(<<"p", "k", "g">>), checks |-> JList(cs)])>>),
           observations |-> EmptyStr,
           recommendation |-> EmptyStr])

\* python json_to_pdf_longtable.py <argv_file>
Main ==
    /\ cli.state = "idle"
    /\ cli' = main(argv_file)
    /\ UNCHANGED <<data, last_save, now, widgets, draft, submitted, ui, git, argv_file>>

\* No argument, an unreadable file, a file that is no JSON, or a record whose
\* artifact has up to MaxChecks of the sample checks.
InitPdf ==
    /\ InitSession(NoFile)
    /\ argv_file \in {NoArg, Unreadable, Malformed}
                     \cup {JsonFile(ReportRecord(cs)) : cs \in UNION {[1..n -> CheckSamples] : n \in 0..MaxChecks}}
    /\ cli = CliIdle

SpecPdf == InitPdf /\ [][Main]_vars

(***************************************************************************)
(* A session opened on a drafts directory that other sessions, other       *)
(* versions of the tool, or an editor have written                         *)
(***************************************************************************)
\* The scores of the six checks of an artifact, in the order of the checklist.
Profiles ==
    { <<1, 1, 1, 1, 1, 1>>,
      <<2, 2, 2, 1, 1, 1>>,
      <<1, 1, 1, 2, 2, 2>>,
      <<2, 2, 2, 2, 1, 1>>,
      <<3, 3, 2, 2, 2, 2>>,
      <<3, 3, 3, 2, 2, 2>>,
      <<4, 4, 3, 3, 3, 3>>,
      <<4, 4, 4, 3, 3, 3>>,
      <<5, 1, 1, 1, 1, 1>> }

\* An artifact of category key as a session saves it, with the given scores.
SavedArtifact(key, scores) ==
    JDict([name |-> JStr(<<"A", "r", "t", "i", "f", "a", "c", "t", " ", "1">>),
           checks |-> JDict([c \in Range(checks[key]) |-> CheckResult(JInt(scores[CHOOSE i \in 1..Len(checks[key]) : checks[key][i] = c]),
                                           EmptyStr)])])

\* A record as a session saves it, with the given artifacts in each category.
SavedRecord(items) ==
    JDict([project_id |-> PROJ001,
           proposal_title |-> EmptyStr,
           principal_investigator |-> EmptyStr,
           proposal_date |-> Today,
           reviewer_name |-> EmptyStr,
           reviewer_id |-> EmptyStr,
           crr_date |-> Today,
           third_party_software |-> JList(items.third_party_software),
           source_code |-> JList(items.source_code),
           datasets_user_files |-> JList(items.datasets_user_files),
           models |-> JList(items.models)])

NoItems == [k \in Range(CategoryKeys) |-> <<>>]

\* Records of sessions: one category with up to two artifacts of any profiles,
\* and every combination of categories that are empty or hold one artifact.
SessionRecords ==
    { SavedRecord([NoItems EXCEPT !.third_party_software =
                      [i \in 1..Len(ps) |-> SavedArtifact("third_party_software", ps[i])]]) :
        ps \in UNION {[1..n -> Profiles] : n \in 0..2} }
    \cup
    { SavedRecord([k \in Range(CategoryKeys) |-> IF f[k] = <<>> THEN <<>> ELSE <<SavedArtifact(k, f[k])>>]) :
        f \in [Range(CategoryKeys) -> {<<>>, <<2, 2, 2, 1, 1, 1>>, <<5, 1, 1, 1, 1, 1>>}] }

\* x without its entry k.
Without(x, k) == JDict([j \in (DOMAIN x.v) \ {k} |-> x.v[j]])

\* An artifact of models whose check c has the given score.
Scored(c, score) ==
    JDict([name |-> JStr(<<"m">>),
           checks |-> DictSet(SavedArtifact("models", <<2, 2, 2, 1, 1, 1>>).v.checks, c,
                              CheckResult(score, EmptyStr))])

\* An artifact of models that lacks the check c.
Lacking(c) ==
    JDict([name |-> JStr(<<"m">>),
           checks |-> Without(SavedArtifact("models", <<2, 2, 2, 1, 1, 1>>).v.checks, c)])

\* Records an editor or another version of the tool has written: a check
\* missing from an artifact, scores that are no integers of 1..5, a category
\* missing from the record, checks kept as a list.
EditedRecords ==
    { SavedRecord([NoItems EXCEPT !.models = items]) :
        items \in { <<Lacking("Model card completeness")>>,
                    <<SavedArtifact("models", <<3, 3, 3, 2, 2, 2>>), Lacking("Model card completeness")>>,
                    <<Scored("Export-controlled model", JInt(7))>>,
                    <<Scored("Export-controlled model", JInt(0))>>,
                    <<Scored("Export-controlled model", JFloat(25))>>,
                    <<Scored("Export-controlled model", JStr(<<"h", "i", "g", "h">>))>>,
                    <<Scored("Export-controlled model", JNull)>>,
                    <<JDict([name |-> JStr(<<"m">>), checks |-> JList(<<>>)])>> } }
    \cup { Without(SavedRecord(NoItems), "models"), JList(<<>>) }

InitDraft ==
    /\ \E file \in {Unreadable, Malformed} \cup {JsonFile(r) : r \in SessionRecords \cup EditedRecords} :
          InitSession(file)
    /\ argv_file = NoArg
    /\ cli = CliIdle

NextDraft ==
    \/ LoadDraft
    \/ AddArtifact
    \/ RemoveArtifact
    \/ Generate

SpecDraft == InitDraft /\ [][NextDraft]_vars

(***************************************************************************)
(* A session whose writes and git commands may fail                        *)
(***************************************************************************)
\* The ways the git commands of a script run answer: all well, nothing to
\* commit, no repository, and each command failing in each of its ways.
GitEnvs ==
    { GitOk,
      GitEnv("ok", "ok", "ok", FALSE, "ok", "ok"),
      GitEnv("norepo", "nonzero", "ok", TRUE, "ok", "ok"),
      GitEnv("raise", "ok", "ok", TRUE, "ok", "ok"),
      GitEnv("nonzero", "ok", "ok", TRUE, "ok", "ok"),
      GitEnv("ok", "raise", "ok", TRUE, "ok", "ok"),
      GitEnv("ok", "ok", "raise", TRUE, "ok", "ok"),
      GitEnv("ok", "ok", "nonzero", TRUE, "ok", "ok"),
      GitEnv("ok", "ok", "ok", TRUE, "nonzero", "ok"),
      GitEnv("ok", "ok", "ok", TRUE, "raise", "ok"),
      GitEnv("ok", "ok", "ok", TRUE, "ok", "nonzero"),
      GitEnv("ok", "ok", "ok", TRUE, "ok", "raise") }

NextSave ==
    \/ AddArtifact
    \/ SaveDraft(BOOLEAN, GitEnvs)
    \/ FinalSubmit(BOOLEAN, GitEnvs)
    \/ Sync(GitEnvs)

SpecSave == Init /\ [][NextSave]_vars

(***************************************************************************)
(* Properties of the report generator                                      *)
(***************************************************************************)
\* The checks of the artifact of the input file.
InputChecks == argv_file.json.v.third_party_software.v[1].v.checks.v

\* The generator has run on an input file whose artifact has checks.
RanOnChecks == argv_file.kind = "json" /\ cli.state = "done" /\ InputChecks # <<>>

\* The flowables of the document with one of the given styles, in order.
Styled(styles) == SelectSeq(cli.document, LAMBDA e : e.style \in styles)

\* The rows of the table of checks, below its header.
CheckRows == Tail(SelectSeq(cli.document, LAMBDA e : e.kind = "Table")[2].rows)

\* The notes text of a check: empty when the check has no notes.
NotesText(check) ==
    IF "notes" \in DOMAIN check.v /\ check.v.notes.t = "str" THEN check.v.notes.v ELSE <<>>

\* The positions of the checks that Long holds for, in order.
LongChecks(cs, Long(_)) == SelectSeq([i \in 1..Len(cs) |-> i], LAMBDA i : Long(cs[i]))

\* The document has one row per check, in order; the Notes cell of a check is the
\* placeholder exactly when Long holds for the check, and the expanded blocks are
\* those of the Long checks, in order, labeled with their names, below the table.
RowsAndBlocks(cs, Long(_)) ==
    /\ Len(CheckRows) = Len(cs)
    /\ \A i \in 1..Len(cs) :
         /\ CheckRows[i][1] = cs[i].v.name.v
         /\ (CheckRows[i][3] = SeeBelow) <=> Long(cs[i])
    /\ Len(Styled({"NotesLabel", "NotesExpanded"})) = 2 * Len(LongChecks(cs, Long))
    /\ \A k \in 1..Len(LongChecks(cs, Long)) :
         /\ Styled({"NotesLabel", "NotesExpanded"})[2 * k - 1]
              = Paragraph(<<"&#9658; ">> \o cs[LongChecks(cs, Long)[k]].v.name.v \o <<":">>, "NotesLabel")
         /\ Styled({"NotesLabel", "NotesExpanded"})[2 * k].style = "NotesExpanded"
    /\ \A p, q \in 1..Len(cli.document) :
         cli.document[p].kind = "Table" /\ cli.document[q].style = "NotesLabel" => p < q

\* C3 (as amended): create_check_elements emits one row per check in the given
\* order; a check's Notes cell is the placeholder, with an expanded block labeled
\* with the check's name below the table, if and only if the notes are longer than
\* 800 characters once leading and trailing whitespace is removed; shorter notes
\* are shown inline, trimmed, with their line breaks kept, and notes that are
\* empty once trimmed are shown as a dash; the blocks are in the order of their
\* checks.
C3_LongNotesAfterTrimming ==
    RanOnChecks /\ cli.written =>
        /\ RowsAndBlocks(InputChecks, LAMBDA c : Len(Strip(NotesText(c))) > 800)
        /\ \A i \in 1..Len(InputChecks) :
             Len(Strip(NotesText(InputChecks[i]))) <= 800 =>
                CheckRows[i][3] = IF Strip(NotesText(InputChecks[i])) = <<>> THEN Dash
                                  ELSE ReplaceNewlines(Strip(NotesText(InputChecks[i])))

\* C3 (witness): a document of a check with 801 characters of notes, shown by the
\* placeholder and an expanded block, and of a check with 800, shown inline.
C3_Witness ==
    /\ RanOnChecks /\ cli.written
    /\ \E i, j \in 1..Len(InputChecks) :
         /\ NotesText(InputChecks[i]) = Notes801.v
         /\ CheckRows[i][3] = SeeBelow
         /\ Paragraph(Notes801.v, "NotesExpanded") \in Range(cli.document)
         /\ NotesText(InputChecks[j]) = Notes800.v
         /\ CheckRows[j][3] = Notes800.v

\* C3 (as stated): the placeholder and the expanded block appear if and only if
\* the notes text, as it stands in the input, is longer than 800 characters.
C3_LongNotesAsWritten ==
    RanOnChecks /\ cli.written => RowsAndBlocks(InputChecks, LAMBDA c : Len(NotesText(c)) > 800)

\* A score in tenths when it is a number, 0 when it is missing or no number.
NumericTenths(check) ==
    IF "score" \notin DOMAIN check.v THEN 0
    ELSE IF check.v.score.t = "int" THEN 10 * check.v.score.v
    ELSE IF check.v.score.t = "float" THEN check.v.score.v
    ELSE 0

\* The line below the table of checks reads "Total Risk Score: <n>".
TotalLineIs(n) == Styled({"TotalRisk"}) = <<Paragraph(Lit("Total Risk Score: ") \o IntStr(n), "TotalRisk")>>

\* C4: calculate_total_risk returns the sum of the numeric scores only, entries
\* with a missing or non-numeric score adding nothing, and 0 for the empty
\* sequence; the "Total Risk Score" line of an artifact shows that sum.
C4_TotalIsSumOfNumericScores ==
    /\ calculate_total_risk(JList(<<>>)) = Ok(0)
    /\ RanOnChecks =>
         /\ cli.written
         /\ 10 * calculate_total_risk(JList(InputChecks)).val
               = Sum([i \in 1..Len(InputChecks) |-> NumericTenths(InputChecks[i])])
         /\ TotalLineIs(calculate_total_risk(JList(InputChecks)).val)

\* The score of a check is an integer, or is no number at all.
IntegerOrNoNumber(check) ==
    "score" \in DOMAIN check.v => check.v.score.t \in {"int", "str", "null"}

\* A score when it is an integer within 1..5, 0 otherwise.
ScoreInRange(check) ==
    IF "score" \in DOMAIN check.v /\ check.v.score.t = "int" /\ check.v.score.v \in 1..5
    THEN check.v.score.v ELSE 0

\* C5: a score that is no number or is outside 1..5 is treated as absent: it is
\* left out of the artifact total, and it raises no error.
C5_BadScoresAreAbsent ==
    RanOnChecks /\ (\A i \in 1..Len(InputChecks) : IntegerOrNoNumber(InputChecks[i])) =>
        /\ cli.written
        /\ TotalLineIs(Sum([i \in 1..Len(InputChecks) |-> ScoreInRange(InputChecks[i])]))

(***************************************************************************)
(* Properties of the review session                                        *)
(***************************************************************************)
\* A check result with a score of 1..5 and notes.
ResultScored(r) ==
    /\ r.t = "dict"
    /\ DOMAIN r.v = {"score", "notes"}
    /\ r.v.score.t = "int"
    /\ r.v.score.v \in 1..5
    /\ r.v.notes.t = "str"

\* An artifact of category key: a name, and scored results for checks of the
\* category's checklist only.
ArtifactScored(a, key) ==
    /\ a.t = "dict"
    /\ DOMAIN a.v = {"name", "checks"}
    /\ a.v.checks.t = "dict"
    /\ DOMAIN a.v.checks.v \subseteq Range(checks[key])
    /\ \A c \in DOMAIN a.v.checks.v : ResultScored(a.v.checks.v[c])

\* A record whose four categories are lists of such artifacts.
RecordScored(d) ==
    /\ d.t = "dict"
    /\ \A key \in Range(CategoryKeys) :
         /\ key \in DOMAIN d.v
         /\ d.v[key].t = "list"
         /\ \A i \in 1..Len(d.v[key].v) : ArtifactScored(d.v[key].v[i], key)

\* No artifact of the record lacks a check of its category.
Complete(d) ==
    \A key \in Range(CategoryKeys) : \A i \in 1..Len(Artifacts(d, key)) :
        DOMAIN Artifacts(d, key)[i].v.checks.v = Range(checks[key])

WellFormed(d) == RecordScored(d) /\ Complete(d)

\* The scores of check c among the artifacts of category key that have the check.
ScoresOf(key, c) ==
    {Artifacts(data, key)[i].v.checks.v[c].v.score.v :
        i \in {j \in 1..Len(Artifacts(data, key)) : c \in DOMAIN Artifacts(data, key)[j].v.checks.v}}

\* The per-check maxima of category key, for the checks some artifact has.
PerCheckMaxima(key) ==
    [p \in 1..Len(checks[key]) |->
        IF ScoresOf(key, checks[key][p]) = {} THEN 0 ELSE Max(ScoresOf(key, checks[key][p]))]

CategoryTotal(key) == Sum(PerCheckMaxima(key))

Severity(key) ==
    IF 5 \in Range(PerCheckMaxima(key)) \/ CategoryTotal(key) >= 21 THEN "CRITICAL"
    ELSE IF CategoryTotal(key) >= 15 THEN "HIGH"
    ELSE IF CategoryTotal(key) >= 10 THEN "MEDIUM"
    ELSE "LOW"

\* The categories of the record that hold an artifact.
NonEmpty == {key \in Range(CategoryKeys) : Artifacts(data, key) # <<>>}

\* The section of every non-empty category shows the sum of the per-check maxima
\* and the severity of that sum.
SectionsShowRisk ==
    \A key \in NonEmpty :
        /\ ui.section[key].shown
        /\ ui.section[key].total = CategoryTotal(key)
        /\ ui.section[key].level = Severity(key)

\* C1: for every non-empty category whose artifacts hold a score of 1..5 for each
\* of the six checks, the section risk is the sum over the checks of the maximum
\* score of the check across the artifacts, and its severity is CRITICAL if a
\* maximum is 5 or the total is at least 21, else HIGH from 15, MEDIUM from 10,
\* else LOW.
C1_SectionRiskIsSumOfMaxima == WellFormed(data) => ui.exc = "none" /\ SectionsShowRisk

\* C1 (witness): a loaded category of two artifacts with different scores, whose
\* maxima add up to a HIGH total.
C1_Witness ==
    /\ ui.ev = "load"
    /\ WellFormed(data)
    /\ \E key \in NonEmpty :
         /\ Len(Artifacts(data, key)) = 2
         /\ Artifacts(data, key)[1].v.checks # Artifacts(data, key)[2].v.checks
         /\ ui.section[key].level = "HIGH"
         /\ ui.section[key].total = 15

\* The sum of the totals of the categories that hold an artifact.
ReviewTotal == Sum([i \in 1..Len(CategoryKeys) |->
                      IF CategoryKeys[i] \in NonEmpty THEN CategoryTotal(CategoryKeys[i]) ELSE 0])

\* C2: the final risk total is the sum of the totals of the categories that hold
\* an artifact, an empty category adding nothing and raising nothing, and the
\* review is critical exactly when such a category has a per-check maximum of 5
\* or the total is at least 21.
C2_FinalRiskSkipsEmptyCategories ==
    WellFormed(data) =>
        /\ ui.exc = "none"
        /\ ui.final.shown
        /\ ui.final.total = ReviewTotal
        /\ ui.final.critical <=> (ReviewTotal >= 21 \/ \E key \in NonEmpty : 5 \in Range(PerCheckMaxima(key)))

\* C2 (witness): a loaded record with artifacts in one category only, whose
\* final total is the total of that category, 21, critical by the total alone.
C2_Witness ==
    /\ ui.ev = "load"
    /\ WellFormed(data)
    /\ NonEmpty = {"third_party_software"}
    /\ ui.final.total = ui.section["third_party_software"].total
    /\ ui.final.total = 21
    /\ 5 \notin Range(PerCheckMaxima("third_party_software"))
    /\ ui.final.critical

\* C6: when an artifact lacks a check of its category, the risk computations do
\* not fail: the maximum of the check is taken over the artifacts that have it.
C6_MissingCheckIsSkipped ==
    RecordScored(data) => ui.exc = "none" /\ SectionsShowRisk

\* C7: an unreadable or malformed file is a failure that is reported: the report
\* generator prints an error, exits non-zero and writes no document, and Load
\* Draft does not report success and keeps the session's record.
C7_UnreadableFileIsReported ==
    /\ cli.state = "done" /\ argv_file.kind \in {"unreadable", "malformed"} =>
         cli.exit # 0 /\ ~cli.written /\ cli.document = <<>>
    /\ ui.ev = "load" /\ draft.kind \in {"unreadable", "malformed"} =>
         "Loaded" \notin Range(ui.msgs) /\ data.t = "dict"

\* C8: save_draft writes the draft file before any synchronization, and a failing
\* git step is swallowed: it never reaches the caller, and Save Draft succeeds
\* with the record on disk exactly when the write succeeded, a failed write being
\* reported whatever git does.
C8_WriteFirstAndSyncSwallowed ==
    /\ \A i \in 1..Len(git) :
         git[i].cmd = "git add" => i > 2 /\ git[i - 1] = Did("json.dump", "ok") /\ git[i - 2] = Did("open", "ok")
    /\ ui.exc \notin {"CalledProcessError", "TimeoutExpired"}
    /\ ui.ev = "save" =>
         IF Did("open", "OSError") \in Range(git)
         THEN ui.exc = "OSError" /\ "Draft saved" \notin Range(ui.msgs)
         ELSE ui.exc = "none" /\ "Draft saved" \in Range(ui.msgs) /\ draft = JsonFile(data)

\* C8 (witness): a Save Draft whose git add fails, and one whose push times out:
\* the draft is on disk and the save has succeeded.
C8_Witness ==
    /\ ui.ev = "save"
    /\ \/ Did("git add", "raise") \in Range(git)
       \/ Did("git push", "raise") \in Range(git)
       \/ Did("git commit", "nonzero") \in Range(git)
    /\ "Draft saved" \in Range(ui.msgs)
    /\ draft = JsonFile(data)

\* C9: from a fresh record, whatever is added, edited and removed, every artifact
\* has a result for exactly the six checks of its category, every score is one of
\* 1..5, and an artifact just added has the score 1 throughout.
C9_ArtifactsKeepTheirShape ==
    /\ WellFormed(data)
    /\ ui.ev = "add" =>
         \E key \in NonEmpty :
            \A c \in Range(checks[key]) :
               Artifacts(data, key)[Len(Artifacts(data, key))].v.checks.v[c] = CheckResult(JInt(1), EmptyStr)

\* C9 (witness): a score of 5 picked for a check of an added artifact.
C9_Witness ==
    /\ ui.ev = "score"
    /\ \E key \in NonEmpty : \E c \in Range(checks[key]) : 5 \in ScoresOf(key, c)

\* What the reviewer entered for a field of Review Information.
Entered(record, field) == record.v[IF field = "aimcr_date" THEN "crr_date" ELSE field]

\* The tables of the document, in order.
Tables == SelectSeq(cli.document, LAMBDA e : e.kind = "Table")

\* The artifacts of a persisted record, category by category.
AllArtifacts(record) == Concat([i \in 1..Len(CategoryKeys) |-> Artifacts(record, CategoryKeys[i])])

\* C10: every record the session persists is rendered by json_to_pdf without
\* failure, each artifact's table holding one row per check, and the Review
\* Information showing the seven values the reviewer entered.
C10_PersistedRecordsRender ==
    cli.state = "done" /\ argv_file.kind = "json" =>
        /\ cli.exit = 0
        /\ cli.written
        /\ Len(Tables) = 1 + Len(AllArtifacts(argv_file.json))
        /\ \A k \in 1..Len(AllArtifacts(argv_file.json)) :
             Len(Tables[1 + k].rows) = 1 + Cardinality(DOMAIN AllArtifacts(argv_file.json)[k].v.checks.v)
        /\ \A i \in 1..Len(MetadataFields) :
             Tables[1].rows[i][2] = PyStr(Entered(argv_file.json, MetadataFields[i][1]))

\* An auto-save was attempted in the script runs of the last user action.
AutoSaveAttempted == Did("auto-save", "begin") \in Range(git)

\* Without a session record nothing is auto-saved, however long ago the last
\* auto-save was: not when the page is opened, where the block comes before
\* INIT DATA, and not in the rerun after FINAL SUBMIT has dropped the record.
NoRecordNoAutoSave ==
    /\ ui.ev = "none" => ~AutoSaveAttempted /\ last_save = 0
    /\ "Submitted" \in Range(ui.msgs) => ~AutoSaveAttempted

\* What a step does about auto-saving.
AutoSaveStep ==
    /\ now' = now => UNCHANGED <<last_save, draft, git>>
    /\ now' # now /\ AutoSaveAttempted' => now' - last_save > AutoSaveInterval
    /\ last_save' # last_save =>
         /\ now' # now /\ AutoSaveAttempted'
         /\ last_save' = now'
         /\ last_save' - last_save > AutoSaveInterval
         /\ draft'.kind = "json"
    /\ now' # now /\ AutoSaveAttempted' /\ last_save' = last_save =>
         /\ ui'.exc = "OSError"
         /\ Did("open", "OSError") \in Range(git')

====
